---- MODULE Spec2Model ----
(***************************************************************************)
(* void-rs: a limbo/login server for a binary game protocol.  One State    *)
(* per accepted connection runs State::connect, a loop around              *)
(* State::receive_packet; all sessions share one Context (the credential   *)
(* store) behind a tokio Mutex.                                            *)
(*                                                                         *)
(* A string is modelled as a sequence of atoms: the atom " " is a space,   *)
(* every other atom is a fragment of text that holds no space.             *)
(***************************************************************************)
EXTENDS Integers, Sequences, FiniteSets, TLC

(* ------------------------------ bounds -------------------------------- *)

\* number of distinct user names the clients claim
NumNames == 2

\* the connections main's accept loop has spawned a task for
Sessions == {1, 2}

AllNames == << <<"alice">>, <<"bob">>, <<"carol">>, <<"dave">> >>
Names == {AllNames[i] : i \in 1..NumNames}

\* the passwords the clients type
Passwords == {<<"p">>, <<"q">>}

(* --------------------------- program constants ------------------------ *)

\* chunk grid of the login burst: for x in 0..5, for z in 0..5
ChunkSide == 5

\* phases (State.state)
Handshake == 0
Status == 1
Login == 2
Play == 3
\* the value State::connect tests to leave the loop
ClosedSentinel == -1

(* ------------------------------- values ------------------------------- *)

\* Option<String>
None == [some |-> FALSE, val |-> <<>>]
Some(v) == [some |-> TRUE, val |-> v]

\* one framed packet written to the stream: id, string field, numeric fields
Pkt(id, text, nums) ==
    [id |-> id, text |-> text, nums |-> nums, flushed |-> TRUE]

\* the packet ids of a sequence of written packets
Ids(pkts) == [i \in DOMAIN pkts |-> pkts[i].id]

\* Result of a handler: the packets it writes in order and whether it
\* returns Err (anyhow error) after them
Ok(pkts) == [pkts |-> pkts, err |-> FALSE]
Err(pkts) == [pkts |-> pkts, err |-> TRUE]

\* str::split(" "): one token per separator plus one; tokens may be empty
RECURSIVE SplitAcc(_, _, _)
SplitAcc(rest, tok, acc) ==
    IF rest = <<>> THEN Append(acc, tok)
    ELSE IF Head(rest) = " " THEN SplitAcc(Tail(rest), <<>>, Append(acc, tok))
    ELSE SplitAcc(Tail(rest), Append(tok, Head(rest)), acc)

Split(str) == SplitAcc(str, <<>>, <<>>)

\* format!("{{\"text\":\"{reason}\"}}")
ChatJson(reason) == <<"{\"text\":\"">> \o reason \o <<"\"}">>

(* ----------------------- packets the server writes -------------------- *)

\* PacketBuilder::new(0x02): login success
LoginSuccess(name) == Pkt(2, name, <<>>)
\* PacketBuilder::new(0x25): join game with the registry codec
JoinGame == Pkt(37, <<"minecraft:the_end">>, <<0, 3, 255, 1, 20, 2, 2>>)
\* PacketBuilder::new(0x4a): slot select
HeldItem == Pkt(74, <<>>, <<0>>)
\* PacketBuilder::new(0x6a): update recipes
UpdateRecipes == Pkt(106, <<>>, <<0>>)
\* PacketBuilder::new(0x6b): update tags
UpdateTags == Pkt(107, <<>>, <<0>>)
\* PacketBuilder::new(0x1a): entity event
EntityEvent == Pkt(26, <<>>, <<0, 28>>)
\* PacketBuilder::new(0x39): synchronize player position, teleport id 42
SyncPosition == Pkt(57, <<>>, <<0, 0, 0, 0, 0, 0, 42, 0>>)
\* PacketBuilder::new(0x37): empty player info
PlayerInfo == Pkt(55, <<>>, <<0, 0>>)
\* PacketBuilder::new(0x4b): set center chunk
SetCenterChunk == Pkt(75, <<>>, <<0, 0>>)
\* PacketBuilder::new(0x21): chunk data at (x - 2, z - 2)
ChunkData(x, z) == Pkt(33, <<"MOTION_BLOCKING">>, <<x - 2, z - 2>>)
\* PacketBuilder::new(0x5d): system message
SystemMessage(text) == Pkt(93, text, <<>>)
\* PacketBuilder::new(0x19): disconnect
Disconnect(text) == Pkt(25, text, <<>>)
\* PacketBuilder::new(0x16): plugin message on channel BungeeCord
PluginMessage == Pkt(22, <<"BungeeCord", "Connect", "main">>, <<>>)
\* PacketBuilder::new(0x00) in Status: the status document
StatusResponse == Pkt(0, <<"status_response.json">>, <<>>)
\* PacketBuilder::new(0x01) in Status: pong; with_i64 appends the eight
\* big-endian bytes of the value (an integer is kept as those bytes)
Pong(v) == Pkt(1, <<>>, v)
\* PacketBuilder::new(0x2f).with_i32: the four big-endian bytes
KeepAliveWidened(v) == Pkt(47, <<>>, <<0, 0, 0, 0>> \o v)
KeepAlive32(v) == Pkt(47, <<>>, v)
\* PacketBuilder::new(0x20).with_i64: the eight big-endian bytes
KeepAlive64(v) == Pkt(32, <<>>, v)

\* for x in 0..5 { for z in 0..5 { ... } }
Chunks == [k \in 1..(ChunkSide * ChunkSide) |->
             ChunkData((k - 1) \div ChunkSide, (k - 1) % ChunkSide)]

\* the packets the login-start arm writes before it asks for the store
LoginBurst(name) ==
    << LoginSuccess(name), JoinGame, HeldItem, UpdateRecipes, UpdateTags,
       EntityEvent, SyncPosition, PlayerInfo, SetCenterChunk, SetCenterChunk >>
    \o Chunks \o << SyncPosition >>

RegisterHintIsLoginHint == SystemMessage(<<"{\"text\":\"/login [password]\"}">>)
RegisterHint == SystemMessage(<<"{\"text\":\"/register [password] [password]\"}">>)
LoginHint == SystemMessage(<<"{\"text\":\"/login [password]\"}">>)

\* kick reasons
DbErrorMsg == <<"Database error. Please contact one of the admins.">>
LoginUsageMsg == <<"Invalid syntax. Usage: /login [password]">>
RegisterUsageMsg == <<"Invalid syntax. Usage: /register [password] [password]">>
MismatchMsg == <<"Passwords do not match.">>
InternalMsg == <<"Internal error.">>
BadLoginMsg == <<"Invalid password or user not registered.">>
AlreadyMsg == <<"This user is already registered.">>
InvalidCommandMsg == <<"Invalid command.">>

\* State::kick: write the disconnect packet, then return Err
KickReturnsOk(reason) == Ok(<< Disconnect(ChatJson(reason)) >>)
Kick(reason) == Err(<< Disconnect(ChatJson(reason)) >>)

(* --------------------------- frames a client sends -------------------- *)

\* a payload: the fields the client serialised into it
Payload(kind, s, bytes, v) == [kind |-> kind, s |-> s, bytes |-> bytes, v |-> v]
EmptyPayload == Payload("empty", <<>>, <<>>, 0)
StrPayload(s) == Payload("str", s, <<>>, 0)
\* a big-endian integer of Len(bytes) bytes
IntPayload(bytes) == Payload("int", <<>>, bytes, 0)
\* protocol version, server address, server port, next state
HsPayload(next) == Payload("hs", <<>>, <<>>, next)

\* next_state values a handshake may carry; 4 is no phase of the server
NextStates == {ClosedSentinel, Status, Login, Play, 4}

Commands ==
    { <<>>,
      <<"login">>,
      <<"login", " ", "p">>,
      <<"login", " ", "q">>,
      <<"register", " ", "p">>,
      <<"register", " ", "p", " ", "p">>,
      <<"register", " ", "p", " ", "q">>,
      <<"help">> }

IntPayloads == { IntPayload(<<255, 0, 0, 2>>),
                 IntPayload(<<0, 0, 0, 0, 0, 0, 0, 1>>),
                 IntPayload(<<0, 0, 0, 7, 128, 0, 0, 2>>) }

\* packet ids: 0x00, 0x01, 0x04, 0x05, 0x12, 0x20 and one id no phase knows
PacketIds == {0, 1, 4, 5, 18, 32, 99}

\* the payloads the clients send under each packet id: the empty payload,
\* which no field parser accepts, and the shapes the id has in some phase
PayloadsFor(id) ==
    {EmptyPayload} \cup
    CASE id = 0 -> {HsPayload(n) : n \in NextStates} \cup {StrPayload(s) : s \in Names}
      [] id = 4 -> {StrPayload(s) : s \in Commands}
      [] id = 5 -> {StrPayload(<<"help">>)}
      [] id = 99 -> {StrPayload(<<"help">>), IntPayload(<<255, 0, 0, 2>>)}
      [] OTHER -> IntPayloads

Frames == UNION { {[id |-> i, payload |-> p] : p \in PayloadsFor(i)} : i \in PacketIds }

\* protocol::read_string on the payload cursor
ReadString(p) ==
    IF p.kind = "str" THEN [ok |-> TRUE, val |-> p.s]
    ELSE [ok |-> FALSE, val |-> <<>>]

\* buffer.read_i32::<BigEndian>(): the first four bytes
ReadI32(p) ==
    IF p.kind = "int" /\ Len(p.bytes) >= 4
    THEN [ok |-> TRUE, val |-> SubSeq(p.bytes, 1, 4)]
    ELSE [ok |-> FALSE, val |-> <<>>]

\* buffer.read_i64::<BigEndian>(): eight bytes
ReadI64(p) ==
    IF p.kind = "int" /\ Len(p.bytes) >= 8
    THEN [ok |-> TRUE, val |-> SubSeq(p.bytes, 1, 8)]
    ELSE [ok |-> FALSE, val |-> <<>>]

\* VarInt, string, u16, VarInt of the handshake; only next_state is kept
ReadHandshake(p) ==
    IF p.kind = "hs" THEN [ok |-> TRUE, val |-> p.v]
    ELSE [ok |-> FALSE, val |-> 0]

(* --------------------------- credential store ------------------------- *)

\* Credentials { name, hash }; the hash stands for argon2 of the password
Credentials(name, password) == [name |-> name, hash |-> <<"argon2", password>>]

\* argon2.verify_password(password, &hash).is_ok()
VerifyAnyPassword(password, hash) == TRUE
VerifyPassword(password, hash) == hash = <<"argon2", password>>

\* users.iter().find(|a| a.name == name).is_some()
PlayerExists(users, name) == \E i \in DOMAIN users : users[i].name = name

\* users.iter().find(|a| a.name == name): the first match
FindUser(users, name) ==
    users[CHOOSE i \in DOMAIN users :
            /\ users[i].name = name
            /\ \A j \in DOMAIN users : users[j].name = name => i <= j]

\* the second half of Context::authenticate
Verify(users, name, password) ==
    /\ PlayerExists(users, name)
    /\ VerifyPassword(password, FindUser(users, name).hash)

(* -------------------------------- state ------------------------------- *)

VARIABLES
    state,        \* State.state of each session: the protocol phase
    username,     \* State.username: Option<String>
    pc,           \* where each session's task is: "read" (awaiting a frame in
                  \* connect's loop), "lock" (awaiting context.lock()),
                  \* "exists" / "create" / "verify" (inside the store call,
                  \* guard held), "reply" (match arms, guard still held),
                  \* "closed" (loop left)
    op,           \* the store call the session is making
    res,          \* outcome of the session's last store call
    out,          \* packets written while handling the current frame
    cur,          \* phase and packet id the current frame was dispatched on
    args,         \* tokens of the command of the current frame
    scripted,     \* history: login start handled through the system message
    credentials,  \* the "credentials" table of the database
    guard,        \* holder of the Mutex<Context>, 0 when free
    registered,   \* history: register calls that returned true, per name
    handed,       \* history: the session has written a proxy hand-off
    input,        \* codec harness: the argument handed to the function
    wire,         \* codec harness: the bytes an encoder produced
    result        \* codec harness: what a decoder or measure returned

vars == << state, username, pc, op, res, out, cur, args, scripted,
           credentials, guard, registered, handed, input, wire, result >>

connVars == << state, username, pc, op, res, out, cur, args, scripted,
               credentials, guard, registered, handed >>
unitVars == << input, wire, result >>

storeVars == << credentials, guard, registered >>
callVars == << op, res >>
histVars == << scripted, handed >>

NoOp == [kind |-> "none", name |-> <<>>, password |-> <<>>]
StoreOp(kind, name, password) == [kind |-> kind, name |-> name, password |-> password]

NoFrame == [phase |-> Handshake, id |-> -1]

NoInput == [kind |-> "none"]
NoWire == [status |-> "none", by |-> "none", bytes |-> <<>>]
NoResult == [fn |-> "none"]

\* State::new for every session, Context opened by login::init_db
ConnInit ==
    /\ state = [s \in Sessions |-> Handshake]
    /\ username = [s \in Sessions |-> None]
    /\ pc = [s \in Sessions |-> "read"]
    /\ op = [s \in Sessions |-> NoOp]
    /\ res = [s \in Sessions |-> "none"]
    /\ out = [s \in Sessions |-> <<>>]
    /\ cur = [s \in Sessions |-> NoFrame]
    /\ args = [s \in Sessions |-> <<>>]
    /\ scripted = [s \in Sessions |-> FALSE]
    /\ credentials = <<>>
    /\ guard = 0
    /\ registered = [n \in Names |-> 0]
    /\ handed = [s \in Sessions |-> FALSE]

\* the server as main starts it: no codec call is in progress
Init ==
    /\ ConnInit
    /\ input = NoInput
    /\ wire = NoWire
    /\ result = NoResult

(* ------------------------- the connection loop ------------------------ *)

\* the phases with a dispatch arm in receive_packet
KnownPhases == {Handshake, Status, Login, Play}

\* the packet ids each phase's match names
Dispatch(phase) ==
    CASE phase = Handshake -> {0}
      [] phase = Status -> {0, 1}
      [] phase = Login -> {0}
      [] phase = Play -> {32, 18, 5, 4}
      [] OTHER -> {}

\* what is left of connect's loop body once the handler has written
\* r.pkts after prior (the stream takes every write): break on Err, break
\* on state == -1, else read the next frame
Finish(s, prior, r, st) ==
    /\ out' = [out EXCEPT ![s] = prior \o r.pkts]
    /\ pc' = [pc EXCEPT ![s] =
                IF r.err \/ st = ClosedSentinel THEN "closed" ELSE "read"]

\* read_generic_packet returned (f.id, f.payload)
BeginAnytime(s, f) ==
    /\ pc[s] /= "closed"
    /\ cur' = [cur EXCEPT ![s] = [phase |-> state[s], id |-> f.id]]

Begin(s, f) ==
    /\ pc[s] = "read"
    /\ cur' = [cur EXCEPT ![s] = [phase |-> state[s], id |-> f.id]]

NoCall(s) ==
    /\ op' = [op EXCEPT ![s] = NoOp]
    /\ res' = [res EXCEPT ![s] = "none"]

\* a handler that touches neither the store nor the session fields
Simple(s, f, r) ==
    /\ Begin(s, f)
    /\ Finish(s, <<>>, r, state[s])
    /\ NoCall(s)
    /\ args' = [args EXCEPT ![s] = <<>>]
    /\ UNCHANGED << unitVars, state, username, histVars, storeVars >>

\* read_generic_packet fails: end of stream, malformed length or id
ReadFail(s) ==
    /\ pc[s] = "read"
    /\ pc' = [pc EXCEPT ![s] = "closed"]
    /\ cur' = [cur EXCEPT ![s] = [phase |-> state[s], id |-> -1]]
    /\ UNCHANGED << unitVars, state, username, callVars, out, args, histVars, storeVars >>

\* state 0, packet 0
HandshakePacket(s, f) ==
    /\ state[s] = Handshake /\ f.id = 0
    /\ Begin(s, f)
    /\ LET hs == ReadHandshake(f.payload)
           st == IF hs.ok THEN hs.val ELSE state[s]
       IN  /\ state' = [state EXCEPT ![s] = st]
           /\ Finish(s, <<>>, IF hs.ok THEN Ok(<<>>) ELSE Err(<<>>), st)
    /\ NoCall(s)
    /\ args' = [args EXCEPT ![s] = <<>>]
    /\ UNCHANGED << unitVars, username, histVars, storeVars >>

\* state 1, packet 0
StatusRequest(s, f) ==
    /\ state[s] = Status /\ f.id = 0
    /\ Simple(s, f, Ok(<< StatusResponse >>))

\* state 1, packet 1
Ping(s, f) ==
    /\ state[s] = Status /\ f.id = 1
    /\ LET v == ReadI64(f.payload)
       IN  Simple(s, f, IF v.ok THEN Ok(<< Pong(v.val) >>) ELSE Err(<<>>))

\* state 3, packet 0x20
KeepAlive(s, f) ==
    /\ state[s] = Play /\ f.id = 32
    /\ LET v == ReadI32(f.payload)
       IN  Simple(s, f, IF v.ok THEN Ok(<< KeepAlive32(v.val) >>) ELSE Err(<<>>))

\* state 3, packet 0x12
KeepAliveLong(s, f) ==
    /\ state[s] = Play /\ f.id = 18
    /\ LET v == ReadI64(f.payload)
       IN  Simple(s, f, IF v.ok THEN Ok(<< KeepAlive64(v.val) >>) ELSE Err(<<>>))

\* state 3, packet 0x5: the chat line is read and printed
ChatLine(p) == IF ReadString(p).ok THEN Ok(<<>>) ELSE Err(<<>>)

ChatMessage(s, f) ==
    /\ state[s] = Play /\ f.id = 5
    /\ Simple(s, f, ChatLine(f.payload))

\* the `_ =>` arm of a known phase: a println at most
UnknownPacketIsError == Err(<<>>)
UnknownPacket == Ok(<<>>)

Ignored(s, f) ==
    /\ state[s] \in KnownPhases /\ f.id \notin Dispatch(state[s])
    /\ Simple(s, f, UnknownPacket)

\* the `_ =>` arm of match self.state: "Unknown state", then Ok(())
UnknownPhase == Ok(<<>>)

UnknownState(s, f) ==
    /\ state[s] \notin KnownPhases
    /\ Simple(s, f, UnknownPhase)

\* state 2, packet 0: the scripted burst up to the store lookup; self.state
\* is set to 3 after the second packet of the burst
LoginStart(s, f) ==
    /\ state[s] = Login /\ f.id = 0
    /\ Begin(s, f)
    /\ args' = [args EXCEPT ![s] = <<>>]
    /\ LET name == ReadString(f.payload)
       IN  IF ~name.ok
           THEN /\ Finish(s, <<>>, Err(<<>>), state[s])
                /\ NoCall(s)
                /\ UNCHANGED << state, username >>
           ELSE /\ username' = [username EXCEPT ![s] = Some(name.val)]
                /\ out' = [out EXCEPT ![s] = LoginBurst(name.val)]
                /\ state' = [state EXCEPT ![s] = Play]
                /\ pc' = [pc EXCEPT ![s] = "lock"]
                /\ op' = [op EXCEPT ![s] = StoreOp("exists", name.val, <<>>)]
                /\ res' = [res EXCEPT ![s] = "none"]
    /\ UNCHANGED << unitVars, histVars, storeVars >>

\* the register arm's password comparison:
\* if args[1] != args[2] { if args.len() != 2 { kick } }
MismatchNeverReported(a) == FALSE
Mismatch(a) == a[2] /= a[3] /\ Len(a) /= 2

\* state 3, packet 0x4, up to the store call: either a handler result
\* (call = FALSE) or the store call the command makes
CommandUncounted(user, a) ==
    LET done(r) == [call |-> FALSE, r |-> r, op |-> NoOp]
        call(o) == [call |-> TRUE, r |-> Ok(<<>>), op |-> o]
    IN  IF a[1] = <<"login">>
        THEN IF ~user.some THEN done(Kick(InternalMsg))
             ELSE call(StoreOp("authenticate", user.val,
                               IF Len(a) >= 2 THEN a[2] ELSE <<>>))
        ELSE IF a[1] = <<"register">>
        THEN IF Len(a) /= 3 THEN done(Kick(RegisterUsageMsg))
             ELSE IF Mismatch(a) THEN done(Kick(MismatchMsg))
             ELSE IF ~user.some THEN done(Kick(InternalMsg))
             ELSE call(StoreOp("register", user.val, a[2]))
        ELSE done(Kick(InvalidCommandMsg))

Command(user, a) ==
    LET done(r) == [call |-> FALSE, r |-> r, op |-> NoOp]
        call(o) == [call |-> TRUE, r |-> Ok(<<>>), op |-> o]
    IN  IF a[1] = <<"login">>
        THEN IF Len(a) /= 2 THEN done(Kick(LoginUsageMsg))
             ELSE IF ~user.some THEN done(Kick(InternalMsg))
             ELSE call(StoreOp("authenticate", user.val, a[2]))
        ELSE IF a[1] = <<"register">>
        THEN IF Len(a) /= 3 THEN done(Kick(RegisterUsageMsg))
             ELSE IF Mismatch(a) THEN done(Kick(MismatchMsg))
             ELSE IF ~user.some THEN done(Kick(InternalMsg))
             ELSE call(StoreOp("register", user.val, a[2]))
        ELSE done(Kick(InvalidCommandMsg))

ChatCommand(s, f) ==
    /\ state[s] = Play /\ f.id = 4
    /\ Begin(s, f)
    /\ LET command == ReadString(f.payload)
           a == Split(command.val)
           c == Command(username[s], a)
       IN  IF ~command.ok
           THEN /\ Finish(s, <<>>, Err(<<>>), state[s])
                /\ args' = [args EXCEPT ![s] = <<>>]
                /\ NoCall(s)
           ELSE /\ args' = [args EXCEPT ![s] = a]
                /\ op' = [op EXCEPT ![s] = c.op]
                /\ res' = [res EXCEPT ![s] = "none"]
                /\ IF c.call
                   THEN /\ pc' = [pc EXCEPT ![s] = "lock"]
                        /\ out' = [out EXCEPT ![s] = <<>>]
                   ELSE Finish(s, <<>>, c.r, state[s])
    /\ UNCHANGED << unitVars, state, username, histVars, storeVars >>

(* ------------------- the store call under the mutex ------------------- *)

StorePcs == {"exists", "create", "verify"}

\* Mutex::lock: granted when no session holds the guard
GuardAlwaysFree(g) == TRUE
GuardFree(g) == g = 0

\* self.context.lock().await
Acquire(s) ==
    /\ pc[s] = "lock"
    /\ GuardFree(guard)
    /\ guard' = s
    /\ pc' = [pc EXCEPT ![s] = "exists"]
    /\ UNCHANGED << unitVars, state, username, callVars, out, cur, args, histVars,
                    credentials, registered >>

SetResult(s, r) ==
    /\ res' = [res EXCEPT ![s] = r]
    /\ pc' = [pc EXCEPT ![s] = "reply"]

Bool(b) == IF b THEN "true" ELSE "false"

\* Context::player_exists, called directly or first thing by register and
\* authenticate; ok = FALSE is a failing db.select
StoreExists(s) ==
    /\ pc[s] = "exists"
    /\ \E ok \in BOOLEAN :
         LET e == PlayerExists(credentials, op[s].name)
         IN  IF ~ok THEN SetResult(s, "err")
             ELSE IF op[s].kind = "exists" THEN SetResult(s, Bool(e))
             ELSE IF op[s].kind = "register"
             THEN IF e THEN SetResult(s, "false")
                  ELSE /\ pc' = [pc EXCEPT ![s] = "create"]
                       /\ UNCHANGED res
             ELSE IF ~e THEN SetResult(s, "false")
                  ELSE /\ pc' = [pc EXCEPT ![s] = "verify"]
                       /\ UNCHANGED res
    /\ UNCHANGED << unitVars, state, username, op, out, cur, args, histVars, storeVars >>

\* Context::register after the existence check: hash and db.create
StoreCreate(s) ==
    /\ pc[s] = "create"
    /\ \E ok \in BOOLEAN :
         IF ok
         THEN /\ credentials' = Append(credentials,
                                       Credentials(op[s].name, op[s].password))
              /\ registered' = [registered EXCEPT ![op[s].name] = @ + 1]
              /\ SetResult(s, "true")
         ELSE /\ SetResult(s, "err")
              /\ UNCHANGED << credentials, registered >>
    /\ UNCHANGED << unitVars, state, username, op, out, cur, args, histVars, guard >>

\* Context::authenticate after the existence check: select, find, verify
StoreVerify(s) ==
    /\ pc[s] = "verify"
    /\ \E ok \in BOOLEAN :
         IF ok
         THEN SetResult(s, Bool(Verify(credentials, op[s].name, op[s].password)))
         ELSE SetResult(s, "err")
    /\ UNCHANGED << unitVars, state, username, op, out, cur, args, histVars, storeVars >>

\* the match arms on the store call's result; after the match of the
\* login-start arm the arm writes `response` once more, which is the
\* second position packet
ReplyIgnoresError(kind, r) ==
    IF kind = "exists"
    THEN IF r = "err" THEN Ok(<< RegisterHint, SyncPosition >>)
         ELSE Ok(<< IF r = "true" THEN LoginHint ELSE RegisterHint, SyncPosition >>)
    ELSE IF r = "true" \/ r = "err" THEN Ok(<< PluginMessage >>)
    ELSE IF kind = "authenticate" THEN Kick(BadLoginMsg)
    ELSE Kick(AlreadyMsg)

ReplyHandsOffAnyway(kind, r) ==
    IF r = "err" THEN Kick(DbErrorMsg)
    ELSE IF kind = "exists"
    THEN Ok(<< IF r = "true" THEN LoginHint ELSE RegisterHint, SyncPosition >>)
    ELSE IF kind = "register" \/ r = "true" THEN Ok(<< PluginMessage >>)
    ELSE Kick(BadLoginMsg)

ReplyTo(kind, r) ==
    IF r = "err" THEN Kick(DbErrorMsg)
    ELSE IF kind = "exists"
    THEN Ok(<< IF r = "true" THEN LoginHint ELSE RegisterHint, SyncPosition >>)
    ELSE IF r = "true" THEN Ok(<< PluginMessage >>)
    ELSE IF kind = "authenticate" THEN Kick(BadLoginMsg)
    ELSE Kick(AlreadyMsg)

\* the match arms run with the guard of the scrutinee still alive; it is
\* dropped at the end of the match statement
Reply(s) ==
    /\ pc[s] = "reply"
    /\ LET r == ReplyTo(op[s].kind, res[s])
       IN  /\ Finish(s, out[s], r, state[s])
           /\ scripted' = [scripted EXCEPT ![s] =
                             @ \/ (op[s].kind = "exists" /\ ~r.err)]
           /\ handed' = [handed EXCEPT ![s] =
                           @ \/ \E i \in DOMAIN r.pkts : r.pkts[i].id = 22]
    /\ guard' = IF guard = s THEN 0 ELSE guard
    /\ UNCHANGED << unitVars, state, username, callVars, cur, args, credentials, registered >>

Next ==
    \/ \E s \in Sessions : ReadFail(s)
    \/ \E s \in Sessions, f \in Frames : HandshakePacket(s, f)
    \/ \E s \in Sessions, f \in Frames : StatusRequest(s, f)
    \/ \E s \in Sessions, f \in Frames : Ping(s, f)
    \/ \E s \in Sessions, f \in Frames : LoginStart(s, f)
    \/ \E s \in Sessions, f \in Frames : KeepAlive(s, f)
    \/ \E s \in Sessions, f \in Frames : KeepAliveLong(s, f)
    \/ \E s \in Sessions, f \in Frames : ChatMessage(s, f)
    \/ \E s \in Sessions, f \in Frames : ChatCommand(s, f)
    \/ \E s \in Sessions, f \in Frames : Ignored(s, f)
    \/ \E s \in Sessions, f \in Frames : UnknownState(s, f)
    \/ \E s \in Sessions : Acquire(s)
    \/ \E s \in Sessions : StoreExists(s)
    \/ \E s \in Sessions : StoreCreate(s)
    \/ \E s \in Sessions : StoreVerify(s)
    \/ \E s \in Sessions : Reply(s)

Spec == Init /\ [][Next]_vars

(* ============================ the VarInt codec ========================= *)

\* rounds a loop is followed before it is taken never to end
MaxRounds == 8
\* longest byte stream handed to VarInt::read
MaxBytes == 6

\* i32 values handed to the encoders, the boundaries of each encoded width
\* among them
I32Values == {0, 1, 127, 128, 255, 300, 16383, 16384, 2097151, 2097152,
              268435455, 268435456, 2147483647, -1, -128, -2147483647 - 1}

\* bytes of the streams handed to VarInt::read
StreamBytes == {1, 127, 128, 255}
Streams == UNION {[1..n -> StreamBytes] : n \in 1..MaxBytes}

\* (value & !0x7F) == 0 on an i32
HighBitsClear(value) == value >= 0 /\ value <= 127

\* value >>= 7 on an i32: the shift keeps the sign
Sar7(value) == value \div 128

\* VarInt::to_bytes
RECURSIVE ToBytesLoop(_, _, _)
ToBytesLoop(value, bytes, rounds) ==
    IF rounds = 0 THEN [status |-> "diverges", bytes |-> bytes]
    ELSE IF HighBitsClear(value)
    THEN [status |-> "ok", bytes |-> Append(bytes, value % 256)]
    ELSE ToBytesLoop(Sar7(value), Append(bytes, (value % 128) + 128), rounds - 1)

VarIntToBytes(value) == ToBytesLoop(value, <<>>, MaxRounds)

\* VarInt::write: the bytes the writer receives
RECURSIVE WriteLoop(_, _, _)
WriteLoop(value, written, rounds) ==
    IF rounds = 0 THEN [status |-> "diverges", bytes |-> written]
    ELSE IF HighBitsClear(value)
    THEN [status |-> "ok", bytes |-> Append(written, value % 256)]
    ELSE WriteLoop(Sar7(value), Append(written, (value % 128) + 128), rounds - 1)

VarIntWrite(value) == WriteLoop(value, <<>>, MaxRounds)

\* VarInt::length
RECURSIVE LengthLoop(_, _, _)
LengthLoop(value, length, rounds) ==
    IF rounds = 0 THEN [status |-> "diverges", value |-> length]
    ELSE IF HighBitsClear(value)
    THEN [status |-> "ok", value |-> length + 1]
    ELSE LengthLoop(Sar7(value), length + 1, rounds - 1)

VarIntLength(value) == LengthLoop(value, 0, MaxRounds)

\* PacketBuilder::with_var_int: the bytes pushed onto the buffer
RECURSIVE WithVarIntLoop(_, _, _)
WithVarIntLoop(value, buffer, rounds) ==
    IF rounds = 0 THEN [status |-> "diverges", bytes |-> buffer]
    ELSE LET byte == value % 128
             rest == Sar7(value)
         IN  IF rest /= 0
             THEN WithVarIntLoop(rest, Append(buffer, byte + 128), rounds - 1)
             ELSE [status |-> "ok", bytes |-> Append(buffer, byte)]

WithVarInt(value) == WithVarIntLoop(value, <<>>, MaxRounds)

\* ((byte & 0x7F) as i32) << position: bits pushed past bit 31 are lost and
\* bit 31 is the sign
Shl(group, position) ==
    IF position + 7 <= 31 THEN group * 2^position
    ELSE LET keep == 2^(31 - position)
             low == group % keep
             sign == (group \div keep) % 2
         IN  low * 2^position - sign * 2^30 - sign * 2^30

\* position >= 32 after position += 7
TooBigAfterFour(position) == position >= 28
TooBig(position) == position >= 32

\* VarInt::read on the bytes left in the stream; value |= group << position
\* adds, as the group lands on bits that are still clear
RECURSIVE ReadLoop(_, _, _, _)
ReadLoop(stream, value, position, consumed) ==
    IF stream = <<>> THEN [status |-> "eof", value |-> 0, consumed |-> consumed]
    ELSE LET byte == Head(stream)
             v == value + Shl(byte % 128, position)
         IN  IF byte < 128
             THEN [status |-> "ok", value |-> v, consumed |-> consumed + 1]
             ELSE IF TooBig(position + 7)
             THEN [status |-> "too big", value |-> 0, consumed |-> consumed + 1]
             ELSE ReadLoop(Tail(stream), v, position + 7, consumed + 1)

VarIntRead(stream) == ReadLoop(stream, 0, 0, 0)

\* the harness: a value to encode, or a stream a peer sent
I32Input(v) == [kind |-> "i32", value |-> v, bytes |-> <<>>]
StreamInput(b) == [kind |-> "bytes", value |-> 0, bytes |-> b]
Produced(by, r) == [status |-> r.status, by |-> by, bytes |-> r.bytes]
Returned(fn, r) == [fn |-> fn, status |-> r.status, value |-> r.value,
                    consumed |-> r.consumed]

VarIntInit ==
    /\ ConnInit
    /\ result = NoResult
    /\ \/ /\ input \in {I32Input(v) : v \in I32Values}
          /\ wire = NoWire
       \/ /\ input \in {StreamInput(b) : b \in Streams}
          /\ wire = Produced("peer", [status |-> "ok", bytes |-> input.bytes])

ToBytes ==
    /\ input.kind = "i32"
    /\ wire' = Produced("to_bytes", VarIntToBytes(input.value))
    /\ UNCHANGED << input, result, connVars >>

Write ==
    /\ input.kind = "i32"
    /\ wire' = Produced("write", VarIntWrite(input.value))
    /\ UNCHANGED << input, result, connVars >>

BuildVarInt ==
    /\ input.kind = "i32"
    /\ wire' = Produced("with_var_int", WithVarInt(input.value))
    /\ UNCHANGED << input, result, connVars >>

Length ==
    /\ input.kind = "i32"
    /\ LET r == VarIntLength(input.value)
       IN  result' = Returned("length", [status |-> r.status, value |-> r.value,
                                          consumed |-> 0])
    /\ UNCHANGED << input, wire, connVars >>

Read ==
    /\ wire.status = "ok"
    /\ result' = Returned("read", VarIntRead(wire.bytes))
    /\ UNCHANGED << input, wire, connVars >>

VarIntNext == ToBytes \/ Write \/ BuildVarInt \/ Length \/ Read

VarIntSpec == VarIntInit /\ [][VarIntNext]_vars

(* =============================== framing =============================== *)

\* longest payload drawn byte by byte
MaxPayload == 3
\* length of the long payloads, around the first two-byte frame length
LongPayload == 127

\* packet ids handed to the frame writers
FrameIds == {0, 1, 36, 127, 128, 300, 2097152, 2147483647, -1}

Zeros(n) == [i \in 1..n |-> 0]

\* payloads handed to the frame writers
FramePayloads ==
    {<<>>} \cup UNION {[1..n -> {0, 255}] : n \in 1..MaxPayload}
           \cup {Zeros(LongPayload - 1), Zeros(LongPayload)}

\* protocol::write_generic_packet: the bytes the writer receives; the
\* function returns without a call of writer.flush()
WriteGenericPacket(packet_id, buffer) ==
    LET idLength == VarIntLength(packet_id)
    IN  IF idLength.status /= "ok"
        THEN [status |-> "diverges", bytes |-> <<>>, flushed |-> FALSE]
        ELSE LET length == VarIntWrite(idLength.value + Len(buffer))
                 id == VarIntWrite(packet_id)
             IN  [status |-> "ok", bytes |-> length.bytes \o id.bytes \o buffer,
                  flushed |-> FALSE]

\* PacketBuilder::build on a builder holding (id, buffer)
Build(id, buffer) ==
    LET idLength == VarIntLength(id)
    IN  IF idLength.status /= "ok" THEN [status |-> "diverges", bytes |-> <<>>]
        ELSE LET length == VarIntToBytes(Len(buffer) + idLength.value)
             IN  [status |-> "ok",
                  bytes |-> length.bytes \o VarIntToBytes(id).bytes \o buffer]

Drop(stream, n) == SubSeq(stream, n + 1, Len(stream))

FrameResult(status, id, payload, consumed) ==
    [fn |-> "read_generic_packet", status |-> status, id |-> id,
     payload |-> payload, consumed |-> consumed]

\* vec![0; length as usize]: a negative i32 becomes a size above isize::MAX
\* and the allocation panics with "capacity overflow"
SizeOverflows(length) == length < 0

\* let length = length - packet_id.length() as i32
PayloadLengthWhole(length, idLength) == length
PayloadLength(length, idLength) == length - idLength

\* protocol::read_generic_packet on the bytes of the stream
ReadGenericPacket(stream) ==
    LET length == VarIntRead(stream)
    IN  IF length.status /= "ok"
        THEN FrameResult(length.status, 0, <<>>, length.consumed)
        ELSE
    LET packet_id == VarIntRead(Drop(stream, length.consumed))
        read == length.consumed + packet_id.consumed
    IN  IF packet_id.status /= "ok"
        THEN FrameResult(packet_id.status, 0, <<>>, read)
        ELSE
    LET idLength == VarIntLength(packet_id.value)
    IN  IF idLength.status /= "ok"
        THEN FrameResult("diverges", packet_id.value, <<>>, read)
        ELSE
    LET n == PayloadLength(length.value, idLength.value)
        rest == Drop(stream, read)
    IN  IF SizeOverflows(n) THEN FrameResult("panic", packet_id.value, <<>>, read)
        ELSE IF Len(rest) < n
        THEN FrameResult("eof", packet_id.value, <<>>, Len(stream))
        ELSE FrameResult("ok", packet_id.value, SubSeq(rest, 1, n), read + n)

\* a continuation byte 10xxxxxx
Continuation(byte) == byte \in 128..191

\* the bytes of the character whose first byte this is, 0 for a byte no
\* character starts with
Width(first) ==
    IF first < 128 THEN 1
    ELSE IF first \in 194..223 THEN 2
    ELSE IF first \in 224..239 THEN 3
    ELSE IF first \in 240..244 THEN 4
    ELSE 0

\* the second byte a first byte allows: no overlong forms, no surrogates,
\* nothing past U+10FFFF
SecondBytes(first) ==
    IF first = 224 THEN 160..191
    ELSE IF first = 237 THEN 128..159
    ELSE IF first = 240 THEN 144..191
    ELSE IF first = 244 THEN 128..143
    ELSE 128..191

\* String::from_utf8(buffer) is Ok: the buffer starts with a character, and
\* every byte that is no continuation byte starts a well-formed character
\* that is followed by the end of the buffer or the next character
ValidUtf8(buffer) ==
    LET n == Len(buffer)
    IN  /\ n > 0 => ~Continuation(buffer[1])
        /\ \A i \in 1..n :
              ~Continuation(buffer[i]) =>
                  LET w == Width(buffer[i])
                  IN  /\ w > 0
                      /\ i + w - 1 <= n
                      /\ w >= 2 => buffer[i + 1] \in SecondBytes(buffer[i])
                      /\ \A k \in 2..(w - 1) : Continuation(buffer[i + k])
                      /\ i + w <= n => ~Continuation(buffer[i + w])

StringResult(status, string, consumed) ==
    [fn |-> "read_string", status |-> status, string |-> string,
     consumed |-> consumed]

\* protocol::read_string on the bytes of the stream
ReadStringBytes(stream) ==
    LET length == VarIntRead(stream)
    IN  IF length.status /= "ok"
        THEN StringResult(length.status, <<>>, length.consumed)
        ELSE
    LET rest == Drop(stream, length.consumed)
    IN  IF SizeOverflows(length.value)
        THEN StringResult("panic", <<>>, length.consumed)
        ELSE IF Len(rest) < length.value
        THEN StringResult("eof", <<>>, Len(stream))
        ELSE LET buffer == SubSeq(rest, 1, length.value)
             IN  IF ValidUtf8(buffer)
                 THEN StringResult("ok", buffer, length.consumed + length.value)
                 ELSE StringResult("invalid utf-8", <<>>,
                                   length.consumed + length.value)

FrameInput(id, payload) == [kind |-> "frame", id |-> id, payload |-> payload]

\* bytes of the streams a peer sends, and the streams of up to MaxBytes
PeerBytes == StreamBytes \cup {0}
PeerStreams == UNION {[1..n -> PeerBytes] : n \in 1..MaxBytes}

FrameInit ==
    /\ ConnInit
    /\ result = NoResult
    /\ \/ /\ input \in {FrameInput(i, p) : i \in FrameIds, p \in FramePayloads}
          /\ wire = NoWire
       \/ /\ input \in {StreamInput(b) : b \in PeerStreams}
          /\ wire = Produced("peer", [status |-> "ok", bytes |-> input.bytes])

SendFrame ==
    /\ input.kind = "frame"
    /\ LET r == WriteGenericPacket(input.id, input.payload)
       IN  /\ wire' = Produced("write_generic_packet", r)
           /\ result' = [fn |-> "write_generic_packet", status |-> r.status,
                         flushed |-> r.flushed]
    /\ UNCHANGED << input, connVars >>

BuildFrame ==
    /\ input.kind = "frame"
    /\ wire' = Produced("build", Build(input.id, input.payload))
    /\ UNCHANGED << input, result, connVars >>

ReceiveFrame ==
    /\ wire.status = "ok"
    /\ result' = ReadGenericPacket(wire.bytes)
    /\ UNCHANGED << input, wire, connVars >>

\* read_string on what the stream holds
ReceiveString ==
    /\ wire.status = "ok"
    /\ result' = ReadStringBytes(wire.bytes)
    /\ UNCHANGED << input, wire, connVars >>

FrameNext == SendFrame \/ BuildFrame \/ ReceiveFrame \/ ReceiveString

FrameSpec == FrameInit /\ [][FrameNext]_vars

(* ============================== NBT encoder ============================ *)

\* enum NBT: a record whose one field is named after the variant; a Float
\* or Double holds its value counted in halves, the strings and byte arrays
\* hold their bytes
NbtEnd == [End |-> 0]
NbtByte(b) == [Byte |-> b]
NbtShort(s) == [Short |-> s]
NbtInt(i) == [Int |-> i]
NbtLong(l) == [Long |-> l]
NbtFloat(f) == [Float |-> f]
NbtDouble(d) == [Double |-> d]
NbtByteArray(vec) == [ByteArray |-> vec]
NbtString(s) == [String |-> s]
NbtList(vec) == [List |-> vec]
NbtCompound(vec) == [Compound |-> vec]
NbtIntArray(vec) == [IntArray |-> vec]
NbtLongArray(vec) == [LongArray |-> vec]

\* the variant of a tag and what it holds
Type(nbt) == CHOOSE k \in DOMAIN nbt : TRUE
Value(nbt) == nbt[Type(nbt)]

\* NamedTag::new
NamedTag(name, tag) == [name |-> name, tag |-> tag]

\* NBT::type_id
TypeId(nbt) ==
    CASE Type(nbt) = "End" -> 0
      [] Type(nbt) = "Byte" -> 1
      [] Type(nbt) = "Short" -> 2
      [] Type(nbt) = "Int" -> 3
      [] Type(nbt) = "Long" -> 4
      [] Type(nbt) = "Float" -> 5
      [] Type(nbt) = "Double" -> 6
      [] Type(nbt) = "ByteArray" -> 7
      [] Type(nbt) = "String" -> 8
      [] Type(nbt) = "List" -> 9
      [] Type(nbt) = "Compound" -> 10
      [] Type(nbt) = "IntArray" -> 11
      [] Type(nbt) = "LongArray" -> 12

\* byte i (0 the lowest) of a number below 2^31
Digit(u, i) == IF i >= 4 THEN 0 ELSE (u \div 256^i) % 256

\* to_be_bytes of a signed integer of width bytes, two's complement
BeBytes(v, width) ==
    [k \in 1..width |->
        IF v >= 0 THEN Digit(v, width - k) ELSE 255 - Digit(-(v + 1), width - k)]

\* (len as u16).to_be_bytes()
U16(len) == BeBytes(len % 65536, 2)

\* the leading 16 bits of the significand of n halves, and its exponent
Magnitude(n) == IF n < 0 THEN -n ELSE n
TopBit(m) == CHOOSE p \in 0..14 : 2^p <= m /\ m < 2^(p + 1)
Fraction15(m) == m * 2^(15 - TopBit(m)) - 2^15

\* f32::to_be_bytes of n halves: sign, 8 exponent bits, 23 fraction bits
F32Bytes(n) ==
    IF n = 0 THEN <<0, 0, 0, 0>>
    ELSE LET m == Magnitude(n)
             e == TopBit(m) - 1 + 127
             f == Fraction15(m)
         IN  << (IF n < 0 THEN 128 ELSE 0) + (e \div 2),
                (e % 2) * 128 + (f \div 256), f % 256, 0 >>

\* f64::to_be_bytes of n halves: sign, 11 exponent bits, 52 fraction bits
F64Bytes(n) ==
    IF n = 0 THEN <<0, 0, 0, 0, 0, 0, 0, 0>>
    ELSE LET m == Magnitude(n)
             e == TopBit(m) - 1 + 1023
             f == Fraction15(m)
         IN  << (IF n < 0 THEN 128 ELSE 0) + (e \div 16),
                (e % 16) * 16 + (f \div 2048), (f \div 8) % 256, (f % 8) * 32,
                0, 0, 0, 0 >>

RECURSIVE EachBe(_, _)
EachBe(vec, width) ==
    IF vec = <<>> THEN <<>>
    ELSE BeBytes(Head(vec), width) \o EachBe(Tail(vec), width)

\* vec.first().map(|t| t.type_id()).unwrap_or(0)
ElementTypeId(vec) == IF vec = <<>> THEN 0 ELSE TypeId(vec[1])

RECURSIVE NbtToBytes(_), NamedTagToBytesInternal(_, _), NamedTagToBytes(_),
          EachToBytes(_), EachTagToBytes(_)

\* for nbt in vec { out.extend_from_slice(&nbt.to_bytes()) }
EachToBytes(vec) ==
    IF vec = <<>> THEN <<>>
    ELSE NbtToBytes(Head(vec)) \o EachToBytes(Tail(vec))

\* for tag in vec { out.extend_from_slice(&tag.to_bytes()) }
EachTagToBytes(vec) ==
    IF vec = <<>> THEN <<>>
    ELSE NamedTagToBytes(Head(vec)) \o EachTagToBytes(Tail(vec))

\* NBT::to_bytes; the Byte arm returns the empty vector
NbtToBytes(nbt) ==
    CASE Type(nbt) = "End" -> <<0>>
      [] Type(nbt) = "Byte" -> <<>>
      [] Type(nbt) = "Short" -> BeBytes(Value(nbt), 2)
      [] Type(nbt) = "Int" -> BeBytes(Value(nbt), 4)
      [] Type(nbt) = "Long" -> BeBytes(Value(nbt), 8)
      [] Type(nbt) = "Float" -> F32Bytes(Value(nbt))
      [] Type(nbt) = "Double" -> F64Bytes(Value(nbt))
      [] Type(nbt) = "ByteArray" -> U16(Len(Value(nbt))) \o Value(nbt)
      [] Type(nbt) = "String" -> U16(Len(Value(nbt))) \o Value(nbt)
      [] Type(nbt) = "List" ->
            << ElementTypeId(Value(nbt)) >> \o BeBytes(Len(Value(nbt)), 4)
                \o EachToBytes(Value(nbt))
      [] Type(nbt) = "Compound" -> EachTagToBytes(Value(nbt)) \o <<0>>
      [] Type(nbt) = "IntArray" ->
            BeBytes(Len(Value(nbt)), 4) \o EachBe(Value(nbt), 4)
      [] Type(nbt) = "LongArray" ->
            BeBytes(Len(Value(nbt)), 4) \o EachBe(Value(nbt), 8)

\* NamedTag::to_bytes_internal
NamedTagToBytesInternal(t, named) ==
    IF TypeId(t.tag) = 0 THEN <<0>>
    ELSE << TypeId(t.tag) >>
           \o (IF named THEN U16(Len(t.name)) \o t.name ELSE <<>>)
           \o NbtToBytes(t.tag)

\* NamedTag::to_bytes
NamedTagToBytesUnnamed(t) == NamedTagToBytesInternal(t, FALSE)
NamedTagToBytes(t) == NamedTagToBytesInternal(t, TRUE)

\* assert!(nbt.type_id() == type_id) of every List reached by to_bytes
AssertsSkipped(nbt) == TRUE

RECURSIVE AssertsHold(_)
AssertsHold(nbt) ==
    CASE Type(nbt) = "List" ->
            \A i \in 1..Len(Value(nbt)) :
                /\ TypeId(Value(nbt)[i]) = ElementTypeId(Value(nbt))
                /\ AssertsHold(Value(nbt)[i])
      [] Type(nbt) = "Compound" ->
            \A i \in 1..Len(Value(nbt)) : AssertsHold(Value(nbt)[i].tag)
      [] OTHER -> TRUE

\* a call of NamedTag::to_bytes: the bytes, or the panic of a failed assert
Serialize(t) ==
    IF TypeId(t.tag) = 0 \/ AssertsHold(t.tag)
    THEN [status |-> "ok", bytes |-> NamedTagToBytes(t)]
    ELSE [status |-> "panic", bytes |-> <<>>]

(* ============================= JSON importer =========================== *)

\* json::JsonValue as json::parse returns it, a record whose one field is
\* named after the variant; a number is counted in halves, an object is its
\* entries in document order
JNull == [Null |-> 0]
JString(s) == [String |-> s]
JNumber(halves) == [Number |-> halves]
JBoolean(b) == [Boolean |-> b]
JObject(entries) == [Object |-> entries]
JArray(vec) == [Array |-> vec]
Entry(k, v) == [key |-> k, member |-> v]

\* the variant of a JSON value and what it holds
Kind(v) == CHOOSE k \in DOMAIN v : TRUE
Val(v) == v[Kind(v)]

\* f.fract() of n halves, in halves
Fract(n) == n % 2
\* f as i32 where fract is 0
AsI32(n) == n \div 2
\* number.as_fixed_point_i64(0).unwrap() as i32: the digits after the point
\* are cut off
AsFixedPoint(n) == IF n >= 0 THEN n \div 2 ELSE -((-n) \div 2)

RECURSIVE FromJsonObject(_), FromJsonArray(_)

\* the match of from_json_object on one entry's value
MemberToNbt(v) ==
    CASE Kind(v) = "String" -> NbtString(Val(v))
      [] Kind(v) = "Number" ->
            IF Fract(Val(v)) = 0 THEN NbtInt(AsI32(Val(v)))
            ELSE NbtFloat(Val(v))
      [] Kind(v) = "Boolean" -> NbtByte(IF Val(v) THEN 1 ELSE 0)
      [] Kind(v) = "Object" -> FromJsonObject(Val(v))
      [] Kind(v) = "Array" -> FromJsonArray(Val(v))

\* the match of from_json_array on one element
ElementToNbt(v) ==
    CASE Kind(v) = "String" -> NbtString(Val(v))
      [] Kind(v) = "Number" -> NbtInt(AsFixedPoint(Val(v)))
      [] Kind(v) = "Boolean" -> NbtByte(IF Val(v) THEN 1 ELSE 0)
      [] Kind(v) = "Object" -> FromJsonObject(Val(v))
      [] Kind(v) = "Array" -> FromJsonArray(Val(v))

\* NBT::from_json_object
FromJsonObject(object) ==
    NbtCompound([i \in 1..Len(object) |->
                    NamedTag(object[i].key, MemberToNbt(object[i].member))])

\* NBT::from_json_array
FromJsonArray(array) ==
    NbtList([i \in 1..Len(array) |-> ElementToNbt(array[i])])

\* JsonValue::Null => unimplemented!() anywhere in the document
RECURSIVE HasNull(_)
HasNull(v) ==
    CASE Kind(v) = "Null" -> TRUE
      [] Kind(v) = "Object" ->
            \E i \in 1..Len(Val(v)) : HasNull(Val(v)[i].member)
      [] Kind(v) = "Array" -> \E i \in 1..Len(Val(v)) : HasNull(Val(v)[i])
      [] OTHER -> FALSE

ImportResult(status, named) ==
    [fn |-> "from_json", status |-> status, named |-> named]

\* NBT::from_json on the parsed document
FromJson(doc) ==
    IF Kind(doc) /= "Object" \/ HasNull(doc)
    THEN ImportResult("panic", NamedTag(<<>>, NbtEnd))
    ELSE ImportResult("ok", NamedTag(<<>>, FromJsonObject(Val(doc))))

(* ------------------------ encoder and importer calls ------------------- *)

\* longest JSON array drawn element by element
MaxArray == 2

\* tags without children
Leaves == { NbtByte(1), NbtShort(-2), NbtInt(1), NbtInt(-1), NbtLong(5),
            NbtFloat(7), NbtDouble(7), NbtByteArray(<<1, 2>>),
            NbtString(<<97>>), NbtIntArray(<<1>>), NbtLongArray(<<0, 0>>) }

Lists == { NbtList(<<>>), NbtList(<<NbtInt(1), NbtInt(2)>>),
           NbtList(<<NbtInt(1), NbtString(<<97>>)>>),
           NbtList(<<NbtString(<<97>>), NbtString(<<>>)>>),
           NbtList(<<NbtList(<<NbtInt(1)>>), NbtList(<<NbtString(<<97>>)>>)>>) }

\* names: "", "a", "ab"
TagNames == { <<>>, <<97>>, <<97, 98>> }

Children == {NamedTag(n, t) : n \in {<<97>>, <<97, 98>>}, t \in Leaves \cup Lists}

Compounds ==
    { NbtCompound(<<>>) }
    \cup {NbtCompound(<<c>>) : c \in Children}
    \cup {NbtCompound(<<NamedTag(<<97>>, a), NamedTag(<<98>>, b)>>) :
            a, b \in {NbtInt(1), NbtShort(-2), NbtString(<<97>>)}}
    \cup {NbtCompound(<<NamedTag(<<111>>, NbtCompound(<<c>>))>>) :
            c \in {NamedTag(<<97>>, NbtInt(1)), NamedTag(<<97>>, NbtByte(1))}}

NbtInput(t) == [kind |-> "nbt", named |-> t]
NbtInputs ==
    {NbtInput(NamedTag(n, t)) :
        n \in TagNames, t \in {NbtEnd} \cup Leaves \cup Lists \cup Compounds}

\* JSON values without members: 1, 3.5, -2, -0.5, true, false, "x"
JsonValues == { JNumber(2), JNumber(7), JNumber(-4), JNumber(-1),
                JBoolean(TRUE), JBoolean(FALSE), JString(<<120>>) }

JsonArrays == {JArray(<<>>)} \cup
    UNION {{JArray(a) : a \in [1..n -> JsonValues]} : n \in 1..MaxArray}

JsonDocs ==
    {JObject(<<>>), JArray(<<>>)}
    \cup {JObject(<<Entry(<<97>>, v)>>) : v \in JsonValues \cup JsonArrays \cup {JNull}}
    \cup {JObject(<<Entry(<<111>>, JObject(<<Entry(<<97>>, v)>>))>>) : v \in JsonValues}
    \cup {JObject(<<Entry(<<97>>, JArray(<<JArray(<<v>>)>>))>>) : v \in JsonValues}
    \cup {JObject(<<Entry(<<97>>, a), Entry(<<98>>, b)>>) :
            a, b \in {JNumber(2), JNumber(7), JBoolean(TRUE)}}

JsonInput(doc) == [kind |-> "json", doc |-> doc]

NbtInit ==
    /\ ConnInit
    /\ input \in NbtInputs \cup {JsonInput(d) : d \in JsonDocs}
    /\ wire = NoWire
    /\ result = NoResult

\* NBT::from_json(text)
Import ==
    /\ input.kind = "json"
    /\ result' = FromJson(input.doc)
    /\ UNCHANGED << input, wire, connVars >>

\* NamedTag::to_bytes on a tag built in memory
Encode ==
    /\ input.kind = "nbt"
    /\ wire' = Produced("to_bytes", Serialize(input.named))
    /\ UNCHANGED << input, result, connVars >>

\* NamedTag::to_bytes on the tag from_json returned
EncodeImported ==
    /\ input.kind = "json"
    /\ result.fn = "from_json" /\ result.status = "ok"
    /\ wire' = Produced("to_bytes", Serialize(result.named))
    /\ UNCHANGED << input, result, connVars >>

NbtNext == Import \/ Encode \/ EncodeImported

NbtSpec == NbtInit /\ [][NbtNext]_vars

(* ====================== properties of the sessions ===================== *)

\* session s handles a frame in this step: it was reading and something of
\* it changes; cur'[s] is then the phase and packet id of the frame
SessionVars(s) == << state[s], username[s], pc[s], op[s], res[s], out[s],
                     cur[s], args[s], scripted[s] >>

FrameStep(s) ==
    /\ pc[s] = "read"
    /\ cur'[s].id /= -1
    /\ SessionVars(s)' /= SessionVars(s)

\* the store call of session s returns in this step
CallReturns(s, kind) ==
    op[s].kind = kind /\ pc[s] \in StorePcs /\ pc'[s] = "reply"

\* session s runs the match arms on its store result in this step
CallReplies(s, kind) ==
    op[s].kind = kind /\ pc[s] = "reply" /\ pc'[s] /= "reply"

KickPacket(reason) == Disconnect(<<"{\"text\":\"">> \o reason \o <<"\"}">>)

\* C1: a session whose phase is Play has handled a login start in the Login
\* phase and written the scripted replies through the system message; no
\* other way leads into Play.
C1_PlayOnlyAfterScript ==
    \A s \in Sessions : state[s] = Play => scripted[s]

\* the packet ids the login-start reply is said to consist of
ScriptedIds ==
    << 2, 37, 74, 106, 107, 26, 57, 55, 75 >>
    \o [k \in 1..25 |-> 33] \o << 57, 93 >>

\* C2: when the store lookup of a login start succeeds, the packets written
\* for that login start are login success, join game, held item, recipes,
\* tags, entity event, position, player info, one set-center-chunk, 25
\* chunks, position, and one system message as the last packet.
C2_ScriptedSequence ==
    \A s \in Sessions :
        (op[s].kind = "exists" /\ res[s] \in {"true", "false"}
            /\ pc[s] \in {"read", "closed"})
        => Ids(out[s]) = ScriptedIds

\* C3: of the register calls made for one user name, by any sessions and
\* under every interleaving of their steps, at most one returns true.
C3_OneRegisterSucceeds ==
    \A n \in Names : registered[n] <= 1

\* one session has been told true while another session's register call for
\* the same name is still waiting for the guard
C3_Witness ==
    \E s1, s2 \in Sessions :
        /\ s1 /= s2
        /\ op[s1].kind = "register" /\ op[s2].kind = "register"
        /\ op[s1].name = op[s2].name
        /\ pc[s1] = "reply" /\ res[s1] = "true"
        /\ pc[s2] = "lock"

\* C4: at most one session at a time is inside a store call (player_exists,
\* register or authenticate).
C4_OneSessionInStore ==
    Cardinality({s \in Sessions : pc[s] \in StorePcs}) <= 1

\* one session is inside create while another one waits to enter
C4_Witness ==
    \E s1, s2 \in Sessions :
        s1 /= s2 /\ pc[s1] = "create" /\ pc[s2] = "lock"

\* a register command of three tokens whose passwords differ
Mismatched(a) ==
    Len(a) = 3 /\ a[1] = <<"register">> /\ a[2] /= a[3]

\* C5: in Play, a command `register p1 p2` of exactly three tokens with
\* p1 /= p2 kicks the session with "Passwords do not match."; register is
\* not called and the store is left as it was.
C5_MismatchKicks ==
    [][ \A s \in Sessions :
          (FrameStep(s) /\ cur'[s] = [phase |-> Play, id |-> 4]
              /\ Mismatched(args'[s]))
          => /\ out'[s] = << KickPacket(<<"Passwords do not match.">>) >>
             /\ pc'[s] = "closed"
             /\ op'[s].kind = "none"
             /\ credentials' = credentials ]_vars

C5_Witness ==
    \E s \in Sessions :
        /\ cur[s] = [phase |-> Play, id |-> 4]
        /\ Mismatched(args[s])
        /\ username[s].some
        /\ pc[s] = "closed"
        /\ Len(out[s]) = 1 /\ out[s][1].id = 25

\* the table holds a record of this name
InStore(users, name) == \E i \in DOMAIN users : users[i].name = name

\* the table holds this name with this password
InStoreWith(users, name, password) ==
    \E i \in DOMAIN users :
        users[i] = [name |-> name, hash |-> <<"argon2", password>>]

\* C6: in Play, `register p p` for a user name that is not in the store
\* makes register return true, after which the plugin hand-off message is
\* written and the connection stays open; every later `register p p` for
\* that name, from any session, is kicked with "This user is already
\* registered." and writes no hand-off.  (A register call the database fails
\* returns neither true nor false; it is the subject of C21.)
C6_RegisterOnce ==
    [][ /\ \A n \in Names : InStore(credentials, n) => InStore(credentials', n)
        /\ \A s \in Sessions :
             /\ (CallReturns(s, "register") /\ res'[s] /= "err")
                => /\ (res'[s] = "true") = ~InStore(credentials, op[s].name)
                   /\ res'[s] = "true"
                      => InStoreWith(credentials', op[s].name, op[s].password)
             /\ (CallReplies(s, "register") /\ res[s] = "true")
                => out'[s] = << PluginMessage >> /\ pc'[s] = "read"
             /\ (CallReplies(s, "register") /\ res[s] = "false")
                => /\ out'[s] = << KickPacket(<<"This user is already registered.">>) >>
                   /\ pc'[s] = "closed" ]_vars

\* one session registered a name and is still connected, another session's
\* register for the same name was kicked
C6_Witness ==
    \E s1, s2 \in Sessions :
        /\ op[s1].kind = "register" /\ res[s1] = "true"
        /\ out[s1] = << PluginMessage >> /\ pc[s1] = "read"
        /\ op[s2].kind = "register" /\ res[s2] = "false"
        /\ op[s2].name = op[s1].name
        /\ pc[s2] = "closed" /\ Len(out[s2]) = 1 /\ out[s2][1].id = 25

\* C7: in Play, `login pw` for which authenticate returns false (the name is
\* not registered, or pw is not its password) kicks with "Invalid password
\* or user not registered." and writes no hand-off; when authenticate
\* returns true the hand-off is written and the loop goes on.
C7_LoginChecked ==
    [][ \A s \in Sessions :
          /\ (CallReturns(s, "authenticate") /\ res'[s] /= "err")
             => (res'[s] = "true")
                  = InStoreWith(credentials, op[s].name, op[s].password)
          /\ (CallReplies(s, "authenticate") /\ res[s] = "true")
             => out'[s] = << PluginMessage >> /\ pc'[s] = "read"
          /\ (CallReplies(s, "authenticate") /\ res[s] = "false")
             => /\ out'[s] = << KickPacket(<<"Invalid password or user not registered.">>) >>
                /\ pc'[s] = "closed" ]_vars

\* a wrong password for a registered name was kicked, and a right one was
\* handed off
C7_Witness ==
    \E s1, s2 \in Sessions :
        /\ op[s1].kind = "authenticate" /\ res[s1] = "false"
        /\ InStore(credentials, op[s1].name)
        /\ pc[s1] = "closed" /\ Len(out[s1]) = 1 /\ out[s1][1].id = 25
        /\ op[s2].kind = "authenticate" /\ res[s2] = "true"
        /\ out[s2] = << PluginMessage >> /\ pc[s2] = "read"

\* C8: a session that has handled a frame in a phase outside Handshake,
\* Status, Login, Play has left its connection loop.
C8_UnknownPhaseFatal ==
    \A s \in Sessions :
        (cur[s].id /= -1 /\ cur[s].phase \notin {0, 1, 2, 3})
        => pc[s] = "closed"

\* C9: a disconnect packet (0x19) is the last packet a session writes, and
\* after it the session reads no frame: the session is closed, and a closed
\* session neither writes nor reads.
C9_KickIsLast ==
    /\ [](\A s \in Sessions : \A i \in DOMAIN out[s] :
            out[s][i].id = 25 => (i = Len(out[s]) /\ pc[s] = "closed"))
    /\ [][ \A s \in Sessions :
             pc[s] = "closed"
             => (pc'[s] = "closed" /\ out'[s] = out[s] /\ cur'[s] = cur[s]) ]_vars

\* a session kicked at the end of the login burst: the kick follows other
\* packets written for the same frame
C9_Witness ==
    \E s \in Sessions :
        /\ pc[s] = "closed"
        /\ Len(out[s]) > 1
        /\ out[s][Len(out[s])].id = 25

\* the frame of this step leaves the session as it was and writes nothing
Untouched(s) ==
    /\ out'[s] = <<>>
    /\ state'[s] = state[s]
    /\ username'[s] = username[s]

\* the packet ids with an effect, by phase, as the claim lists them
ClaimedTable(phase) ==
    CASE phase = Handshake -> {0}
      [] phase = Status -> {0, 1}
      [] phase = Login -> {0}
      [] phase = Play -> {32, 18, 4}

KeepAliveFrames == {f \in Frames : f.id \in {18, 32}}

\* C11: in Play a keep-alive is echoed at the width it came in: packet 0x20
\* with a 32-bit value is answered by exactly one packet 0x2f carrying the
\* same four bytes, packet 0x12 with a 64-bit value by exactly one packet
\* 0x20 carrying the same eight bytes, and the phase stays Play
C11_KeepAliveEcho ==
    [][\A s \in Sessions :
        (pc[s] = "read" /\ state[s] = Play) =>
          \A f \in KeepAliveFrames :
            /\ (KeepAlive(s, f) /\ Len(f.payload.bytes) >= 4) =>
                  /\ out'[s] = << Pkt(47, <<>>, SubSeq(f.payload.bytes, 1, 4)) >>
                  /\ state'[s] = Play /\ pc'[s] = "read"
            /\ (KeepAliveLong(s, f) /\ Len(f.payload.bytes) >= 8) =>
                  /\ out'[s] = << Pkt(32, <<>>, SubSeq(f.payload.bytes, 1, 8)) >>
                  /\ state'[s] = Play /\ pc'[s] = "read"]_vars

C11_Witness ==
    /\ \E s \in Sessions :
        /\ cur[s] = [phase |-> Play, id |-> 32]
        /\ out[s] = << Pkt(47, <<>>, <<255, 0, 0, 2>>) >>
        /\ state[s] = Play /\ pc[s] = "read"
    /\ \E s \in Sessions :
        /\ cur[s] = [phase |-> Play, id |-> 18]
        /\ out[s] = << Pkt(32, <<>>, <<0, 0, 0, 7, 128, 0, 0, 2>>) >>
        /\ state[s] = Play /\ pc[s] = "read"

(* ====================== properties of the VarInt codec ================= *)

\* C12: for every i32 value v, negative ones included, decode(encode(v))
\* returns v and consumes exactly the bytes that encode produced
C12_RoundTrip ==
    (input.kind = "i32" /\ wire.by \in {"to_bytes", "write"}) =>
        /\ wire.status = "ok"
        /\ result.fn = "read" =>
              /\ result.status = "ok"
              /\ result.value = input.value
              /\ result.consumed = Len(wire.bytes)

\* C13: every encoder ends on every i32 value with 1 to 5 bytes, and with
\* exactly 5 bytes on a negative value: encode, PacketBuilder's with_var_int
\* and encoded_length alike
C13_EncodeTotal ==
    input.kind = "i32" =>
        /\ wire.status /= "none" =>
              /\ wire.status = "ok"
              /\ Len(wire.bytes) \in 1..5
              /\ input.value < 0 => Len(wire.bytes) = 5
        /\ result.fn = "length" =>
              /\ result.status = "ok"
              /\ result.value \in 1..5
              /\ input.value < 0 => result.value = 5

\* index of the first byte whose continuation bit is clear, 0 if there is none
FirstClear(bytes) ==
    IF \E i \in 1..Len(bytes) : bytes[i] < 128
    THEN CHOOSE i \in 1..Len(bytes) :
            /\ bytes[i] < 128
            /\ \A j \in 1..(i - 1) : bytes[j] >= 128
    ELSE 0

\* C14: decode succeeds on every stream whose first byte with a clear
\* continuation bit is among the first five, consuming the bytes up to it;
\* on a stream whose first five bytes all have the continuation bit set it
\* fails as malformed and has consumed no more than five bytes
C14_ReadBounded ==
    (input.kind = "bytes" /\ result.fn = "read") =>
        LET k == FirstClear(input.bytes)
        IN  IF k \in 1..5
            THEN result.status = "ok" /\ result.consumed = k
            ELSE IF Len(input.bytes) >= 5
            THEN result.status = "too big" /\ result.consumed <= 5
            ELSE result.status = "eof"

C14_Witness ==
    /\ input = StreamInput(<<255, 255, 255, 255, 255, 255>>)
    /\ result.fn = "read"
    /\ result.status = "too big"
    /\ result.consumed = 5

\* C15: for every i32 value v, encoded_length(v) is the number of bytes
\* encode(v) produces
C15_LengthAgrees ==
    (input.kind = "i32" /\ wire.by = "to_bytes" /\ result.fn = "length") =>
        /\ wire.status = "ok"
        /\ result.status = "ok"
        /\ result.value = Len(wire.bytes)

(* ========================= properties of framing ======================= *)

\* the VarInt of a non-negative number: base 128, low group first
RECURSIVE Base128(_)
Base128(n) ==
    IF n < 128 THEN << n >> ELSE << 128 + (n % 128) >> \o Base128(n \div 128)

\* VarInt(L) VarInt(id) payload with L = encoded_length(id) + len(payload)
FrameOf(id, payload) ==
    Base128(Len(Base128(id)) + Len(payload)) \o Base128(id) \o payload

\* C16: for every packet id >= 0 and payload, write_frame and
\* PacketBuilder::build produce the same bytes VarInt(L) VarInt(id) payload
\* with L = encoded_length(id) + len(payload), and read_frame of those
\* bytes returns (id, payload)
C16_FrameRoundTrip ==
    (input.kind = "frame" /\ input.id >= 0) =>
        /\ wire.status /= "none" =>
              /\ wire.status = "ok"
              /\ wire.bytes = FrameOf(input.id, input.payload)
        /\ result.fn = "read_generic_packet" =>
              /\ result.status = "ok"
              /\ result.id = input.id
              /\ result.payload = input.payload
              /\ result.consumed = Len(wire.bytes)

C16_Witness ==
    /\ input = FrameInput(300, Zeros(LongPayload))
    /\ wire.by = "build"
    /\ Len(wire.bytes) = LongPayload + 4
    /\ result.fn = "read_generic_packet"
    /\ result.status = "ok"
    /\ result.id = 300

(* ================= properties of the encoder and importer ============== *)

\* a child as a full NamedTag: type byte, 16-bit big-endian name length,
\* name, then the bytes its tag writes as its value
ChildSegment(c) ==
    << TypeId(c.tag) >> \o << Len(c.name) \div 256, Len(c.name) % 256 >>
        \o c.name \o NbtToBytes(c.tag)

RECURSIVE Segments(_)
Segments(children) ==
    IF children = <<>> THEN <<>>
    ELSE ChildSegment(Head(children)) \o Segments(Tail(children))

RECURSIVE AsStated(_, _)
AsStated(v, nbt) ==
    CASE Kind(v) = "Boolean" -> nbt = NbtByte(IF Val(v) THEN 1 ELSE 0)
      [] Kind(v) = "String" -> nbt = NbtString(Val(v))
      [] Kind(v) = "Number" ->
            IF Val(v) % 2 = 0 THEN nbt = NbtInt(Val(v) \div 2)
            ELSE Type(nbt) \in {"Float", "Double"} /\ Value(nbt) = Val(v)
      [] Kind(v) = "Object" ->
            /\ Type(nbt) = "Compound"
            /\ Len(Value(nbt)) = Len(Val(v))
            /\ \A i \in 1..Len(Val(v)) :
                /\ Value(nbt)[i].name = Val(v)[i].key
                /\ AsStated(Val(v)[i].member, Value(nbt)[i].tag)
      [] Kind(v) = "Array" ->
            /\ Type(nbt) = "List"
            /\ Len(Value(nbt)) = Len(Val(v))
            /\ \A i \in 1..Len(Val(v)) : AsStated(Val(v)[i], Value(nbt)[i])
      [] OTHER -> TRUE

\* C18: from_json maps a JSON value the same way at every nesting position,
\* in objects and in arrays: a boolean to Byte(0 or 1), a string to String,
\* a number without fractional part to Int, a number with a fractional part
\* to Float or Double and never to Int, an object to a Compound with one
\* NamedTag per key in document order, an array to a List
C18_SameEverywhere ==
    (input.kind = "json" /\ result.fn = "from_json" /\ result.status = "ok") =>
        /\ result.named.name = <<>>
        /\ AsStated(input.doc, result.named.tag)

(* ================== properties of the sessions, continued ============== *)

\* C19: every phase change of a session follows Handshake -> {Status,
\* Login} -> Play: a handshake moves the phase to Status or to Login and to
\* no other phase, Status never changes phase, Login changes only to Play,
\* and the phase never moves back
C19_PhaseGraph ==
    [][\A s \in Sessions :
        state'[s] /= state[s] =>
            << state[s], state'[s] >> \in
                { << Handshake, Status >>, << Handshake, Login >>,
                  << Login, Play >> }]_vars

\* the system messages among the packets written for a frame
SystemMessages(pkts) == {i \in DOMAIN pkts : pkts[i].id = 93}

\* C20: after the scripted login sequence the system message is chosen by
\* the store's answer for the claimed user name: the instruction to run
\* /register when the name does not exist, the instruction to run /login
\* when it exists, and exactly one of the two is written
C20_HintByStore ==
    [][\A s \in Sessions :
        /\ (CallReturns(s, "exists") /\ res'[s] /= "err") =>
              (res'[s] = "true") = InStore(credentials, op[s].name)
        /\ (CallReplies(s, "exists") /\ res[s] /= "err") =>
              /\ Cardinality(SystemMessages(out'[s])) = 1
              /\ \A i \in SystemMessages(out'[s]) :
                    out'[s][i].text =
                        IF res[s] = "true"
                        THEN <<"{\"text\":\"/login [password]\"}">>
                        ELSE <<"{\"text\":\"/register [password] [password]\"}">>]_vars

C20_Witness ==
    \E s \in Sessions :
        /\ cur[s] = [phase |-> Login, id |-> 0]
        /\ pc[s] = "read" /\ res[s] = "true"
        /\ InStore(credentials, op[s].name)
        /\ \E i \in SystemMessages(out[s]) :
              out[s][i].text = <<"{\"text\":\"/login [password]\"}">>

\* the three store calls a session makes
StoreCalls == {"exists", "authenticate", "register"}

\* C21: an error of the credential store in the existence check at login,
\* in authenticate or in register is answered by the kick with the fixed
\* admin-contact message and nothing else: the error's text is not written,
\* no system message and no hand-off is written, and the connection loop
\* ends for good
C21_StoreErrorKicks ==
    [][\A s \in Sessions :
        /\ \A kind \in StoreCalls :
              (CallReplies(s, kind) /\ res[s] = "err") =>
                  /\ out'[s] = out[s] \o
                       << KickPacket(<<"Database error. Please contact one of the admins.">>) >>
                  /\ \A i \in DOMAIN out'[s] : out'[s][i].id \notin {93, 22}
                  /\ pc'[s] = "closed"
        /\ pc[s] = "closed" => (pc'[s] = "closed" /\ out'[s] = out[s])]_vars

C21_Witness ==
    \E s \in Sessions :
        /\ pc[s] = "closed"
        /\ op[s].kind = "register" /\ res[s] = "err"
        /\ out[s] = << KickPacket(<<"Database error. Please contact one of the admins.">>) >>

\* the command of the frame is not well formed: args are its tokens
Malformed(a) ==
    \/ a[1] = <<"login">> /\ Len(a) /= 2
    \/ a[1] = <<"register">> /\ Len(a) /= 3
    \/ a[1] \notin {<<"login">>, <<"register">>}

\* the kick the claim names for a command that is not well formed
MalformedKick(a) ==
    IF a[1] = <<"login">>
    THEN KickPacket(<<"Invalid syntax. Usage: /login [password]">>)
    ELSE IF a[1] = <<"register">>
    THEN KickPacket(<<"Invalid syntax. Usage: /register [password] [password]">>)
    ELSE KickPacket(<<"Invalid command.">>)

\* C22: every command string received in Play under packet 0x04, the empty
\* string included, that is not well formed is kicked without a store call
\* and without a hand-off: `login` with a token count other than 2 and
\* `register` with a token count other than 3 with the usage message, any
\* other first token with "Invalid command."
C22_MalformedKicked ==
    [][\A s \in Sessions :
        (/\ FrameStep(s)
         /\ cur'[s] = [phase |-> Play, id |-> 4]
         /\ args'[s] /= <<>>
         /\ Malformed(args'[s])) =>
            /\ out'[s] = << MalformedKick(args'[s]) >>
            /\ pc'[s] = "closed"
            /\ op'[s] = NoOp
            /\ UNCHANGED << credentials, guard >>]_vars

C22_Witness ==
    \E s \in Sessions :
        /\ cur[s] = [phase |-> Play, id |-> 4]
        /\ args[s] = << <<>> >>
        /\ username[s].some
        /\ pc[s] = "closed"
        /\ out[s] = << KickPacket(<<"Invalid command.">>) >>

\* the packets p are the first packets of q
IsPrefix(p, q) == Len(p) <= Len(q) /\ SubSeq(q, 1, Len(p)) = p

\* C23: a connection handles its incoming packets one after the other:
\* while the handler of a packet is still at work no further packet of the
\* connection is dispatched and its replies are only added to, and when the
\* connection is ready to read the next packet every reply of the packet
\* before is written and flushed, so reply sequences never interleave
C23_OneFrameAtATime ==
    [][\A s \in Sessions :
        /\ pc[s] /= "read" =>
              /\ cur'[s] = cur[s]
              /\ IsPrefix(out[s], out'[s])
        /\ pc'[s] = "read" =>
              \A i \in DOMAIN out'[s] : out'[s][i].flushed]_vars

C23_Witness ==
    \E s \in Sessions :
        /\ cur[s] = [phase |-> Login, id |-> 0]
        /\ pc[s] = "read"
        /\ Len(out[s]) > Len(LoginBurst(<<"alice">>))
        /\ \A i \in DOMAIN out[s] : out[s][i].flushed
        /\ \E o \in Sessions \ {s} : pc[o] \in {"lock", "reply"}

\* C24: write_frame(stream, id, payload) writes encode(L), encode(id) and
\* the payload with L = encoded_length(id) + len(payload), and has flushed
\* the stream when it returns
C24_WriteFrameFlushes ==
    (/\ input.kind = "frame" /\ input.id >= 0
     /\ result.fn = "write_generic_packet") =>
        /\ result.status = "ok"
        /\ wire.bytes = FrameOf(input.id, input.payload)
        /\ result.flushed

\* widths of the fixed-width integer tags
FixedWidth(type) ==
    CASE type = "Byte" -> 1 [] type = "Short" -> 2
      [] type = "Int" -> 4 [] type = "Long" -> 8

\* C25: every fixed-width tag writes its big-endian value as its value
\* bytes, Byte 1 byte, Short 2, Int 4 and Long 8, so a NamedTag holding
\* Byte(b) is the type byte 0x01, the length-prefixed name and the byte b
C25_FixedWidthValue ==
    (/\ input.kind = "nbt" /\ wire.by = "to_bytes"
     /\ Type(input.named.tag) \in {"Byte", "Short", "Int", "Long"}) =>
        LET name == input.named.name
            tag == input.named.tag
        IN  /\ wire.status = "ok"
            /\ wire.bytes =
                  << TypeId(tag), Len(name) \div 256, Len(name) % 256 >> \o name
                    \o BeBytes(Value(tag), FixedWidth(Type(tag)))

\* the tag that was handed to to_bytes
Encoded == IF input.kind = "nbt" THEN input.named.tag ELSE result.named.tag

\* some List of the tree holds two elements of different variants
RECURSIVE HasMixedList(_)
HasMixedList(nbt) ==
    CASE Type(nbt) = "List" ->
            \/ \E i, j \in 1..Len(Value(nbt)) :
                    Type(Value(nbt)[i]) /= Type(Value(nbt)[j])
            \/ \E i \in 1..Len(Value(nbt)) : HasMixedList(Value(nbt)[i])
      [] Type(nbt) = "Compound" ->
            \E i \in 1..Len(Value(nbt)) : HasMixedList(Value(nbt)[i].tag)
      [] OTHER -> FALSE

\* the value bytes of the elements, one after the other
RECURSIVE ElementValues(_)
ElementValues(vec) ==
    IF vec = <<>> THEN <<>>
    ELSE NbtToBytes(Head(vec)) \o ElementValues(Tail(vec))

Written(s) == SubSeq(out'[s], Len(out[s]) + 1, Len(out'[s]))

\* session s writes the proxy hand-off in this step
WritesHandOff(s) ==
    /\ pc[s] /= "closed"
    /\ IF pc[s] = "read"
       THEN FrameStep(s) /\ \E i \in DOMAIN out'[s] : out'[s][i].id = 22
       ELSE \E i \in DOMAIN Written(s) : Written(s)[i].id = 22

\* C27: a session writes the hand-off plugin message only in the match arm
\* that follows a true result of its own authenticate or register call, made
\* for the user name the session claimed at login start; the store then
\* holds that name with the password of the call, and nothing but the
\* hand-off is written for the command
C27_HandOffOnlyAfterTrue ==
    [][ \A s \in Sessions :
          WritesHandOff(s) =>
              /\ \E kind \in {"authenticate", "register"} : CallReplies(s, kind)
              /\ res[s] = "true"
              /\ username[s] = Some(op[s].name)
              /\ InStoreWith(credentials, op[s].name, op[s].password)
              /\ out'[s] = << PluginMessage >> ]_vars

\* a session that claimed a name at login start has been handed off after
\* its login command, while a session that reached Play without a login
\* start was kicked for its login command without a hand-off
C27_Witness ==
    \E s1, s2 \in Sessions :
        /\ username[s1].some
        /\ op[s1] = [kind |-> "authenticate", name |-> username[s1].val,
                     password |-> op[s1].password]
        /\ res[s1] = "true" /\ out[s1] = << PluginMessage >>
        /\ ~username[s2].some /\ state[s2] = Play
        /\ cur[s2] = [phase |-> Play, id |-> 4]
        /\ pc[s2] = "closed" /\ Ids(out[s2]) = << 25 >>

\* C28: a session whose phase is Play has its claimed user name set, and no
\* session is ever kicked with "Internal error."
C28_PlayHasUsername ==
    \A s \in Sessions :
        /\ state[s] = Play => username[s].some
        /\ \A i \in DOMAIN out[s] :
              out[s][i] /= KickPacket(<<"Internal error.">>)

\* C29: a session holds the store guard only while its store call runs: in
\* no step in which it writes a reply to its client does it hold the guard
C29_NoGuardWhileWriting ==
    [][ \A s \in Sessions :
          /\ guard = s => pc[s] \in StorePcs
          /\ (pc[s] /= "read" /\ Written(s) /= <<>>) => guard /= s ]_vars

\* C30: the store holds at most one record per user name, its records are
\* never removed or changed, so the one password that authenticates a
\* registered name stays the same, and a register call for a name the store
\* holds returns false (or fails) and leaves the store as it was
C30_StoreStable ==
    [][ /\ \A i, j \in DOMAIN credentials' :
              credentials'[i].name = credentials'[j].name => i = j
        /\ IsPrefix(credentials, credentials')
        /\ \A n \in Names, p \in Passwords :
              Verify(credentials, n, p) =>
                  \A q \in Passwords : Verify(credentials', n, q) = (q = p)
        /\ \A s \in Sessions :
              (op[s].kind = "register" /\ pc[s] \in StorePcs
                  /\ InStore(credentials, op[s].name)) =>
                  /\ credentials' = credentials
                  /\ pc'[s] \in StorePcs \cup {"reply"}
                  /\ pc'[s] = "reply" => res'[s] \in {"false", "err"} ]_vars

\* the store holds two records, and a register call for a name it holds has
\* been answered false
C30_Witness ==
    /\ Len(credentials) >= 2
    /\ \E s \in Sessions :
          /\ op[s].kind = "register" /\ res[s] = "false"
          /\ InStore(credentials, op[s].name)
          /\ pc[s] = "reply"

\* the ways a read reports an error value to its caller
ErrorValues == {"eof", "too big", "invalid utf-8"}

\* C31: read_generic_packet and read_string answer every malformed length
\* with an error value: a frame whose declared length is smaller than the
\* size of its packet id on the wire (0 included), and a frame or a string
\* whose declared length is negative, make the call return an error; the
\* length is not turned into an unsigned buffer size
C31_MalformedLengthIsError ==
    wire.by = "peer" =>
        LET length == VarIntRead(wire.bytes)
            packet_id == VarIntRead(Drop(wire.bytes, length.consumed))
        IN  /\ (/\ result.fn = "read_generic_packet"
                /\ length.status = "ok" /\ packet_id.status = "ok"
                /\ packet_id.value >= 0
                /\ length.value < packet_id.consumed) =>
                   result.status \in ErrorValues
            /\ (/\ result.fn = "read_string"
                /\ length.status = "ok" /\ length.value < 0) =>
                   result.status \in ErrorValues

\* C32: a session writes the proxy hand-off at most once in its lifetime:
\* once it has written one, no later step of the session writes another
C32_HandOffOnce ==
    [][ \A s \in Sessions : WritesHandOff(s) => ~handed[s] ]_vars

====
